---- MODULE Spec2Model ----
(***************************************************************************)
(* Model of the user-profile-service request pipeline:                     *)
(*   validateRequest -> route handler (userRoutes.ts) -> errorHandler,     *)
(* together with the health routes, Database.transaction and the process'  *)
(* signal handling.                                                        *)
(* The relational store is the users table created by migrate(); every     *)
(* db.query of a handler is one atomic step at the store, so concurrent     *)
(* requests interleave exactly at the handlers' await points.              *)
(*                                                                         *)
(* Framework assumption: an error thrown by a middleware or by an async    *)
(* route handler is delivered to the error middleware registered last in   *)
(* app.ts (app.use(errorHandler)).                                          *)
(***************************************************************************)
EXTENDS Integers, Sequences, FiniteSets, TLC

\* users: the rows of the users table; reqs: the request in each slot;
\* clock: the wall clock; nextId: the next uuidv4() draw; nodeEnv:
\* process.env.NODE_ENV; issued: the ids answered by a Create; dbUp: whether
\* the store answers queries; tx: the calls of Database.transaction in
\* progress; proc: the server process.
VARIABLES users, reqs, clock, nextId, nodeEnv, issued, dbUp, tx, proc

vars == <<users, reqs, clock, nextId, nodeEnv, issued, dbUp, tx, proc>>

(***************************************************************************)
(* Bounds of the model.                                                    *)
(***************************************************************************)
MaxIds == 2         \* uuidv4() calls over a behaviour
MaxClock == 1       \* readings of the wall clock: 0..MaxClock

\* Request slots: the requests that may be in flight at the same time.
Reqs == {"r1", "r2"}

(***************************************************************************)
(* Optional values: a JS undefined / SQL NULL is None, a present value v   *)
(* is Some(v).                                                             *)
(***************************************************************************)
None == <<>>
Some(v) == <<v>>
IsSome(m) == m # <<>>
Val(m) == m[1]

(***************************************************************************)
(* uuid.v4: a universally unique identifier per call.  The n-th call of a  *)
(* behaviour returns UuidPool[n]; the last pool entries are well-formed    *)
(* UUIDs that are never issued.                                            *)
(***************************************************************************)
UuidPool == <<"u1", "u2", "u3", "u4", "u5", "u6">>

\* A generator that hands out the same identifier again.
uuidv4Reused(n) == UuidPool[1]

uuidv4(n) == UuidPool[n]

IsUuid(s) == \E i \in 1..Len(UuidPool) : UuidPool[i] = s

(***************************************************************************)
(* Error taxonomy (errorHandler.ts).  An error value is a record; cls      *)
(* names its class, isHttp is `instanceof HttpError'.                      *)
(***************************************************************************)
\* A status rule that counts 500 among the client errors.
HttpStatusUpTo500(statusCode) ==
    IF statusCode >= 400 /\ statusCode <= 500 THEN "fail" ELSE "error"

HttpStatus(statusCode) ==
    IF statusCode >= 400 /\ statusCode < 500 THEN "fail" ELSE "error"

HttpError(message, statusCode, code) ==
    [cls |-> "HttpError", isHttp |-> TRUE, name |-> Some("Error"),
     message |-> Some(message), statusCode |-> Some(statusCode),
     status |-> Some(HttpStatus(statusCode)), code |-> code]

NotFoundError(message) ==
    [HttpError(message, 404, Some("NOT_FOUND")) EXCEPT !.cls = "NotFoundError"]

ValidationError(message) ==
    [HttpError(message, 400, Some("VALIDATION_ERROR")) EXCEPT !.cls = "ValidationError"]

ConflictError(message) ==
    [HttpError(message, 409, Some("CONFLICT")) EXCEPT !.cls = "ConflictError"]

\* An error thrown by the store driver (pg): a plain Error, not an HttpError.
StoreError(message) ==
    [cls |-> "Error", isHttp |-> FALSE, name |-> Some("error"),
     message |-> Some(message), statusCode |-> None,
     status |-> None, code |-> None]

\* new C(...): the error a constructor call builds.  A call is described by
\* its class and arguments; None is an argument left out.  A plain Error
\* (cls "Error") is any value that is not an HttpError: it has a name, a
\* message and whatever statusCode and code the thrower attached.
DefaultStatusCode == 500

Construct(d) ==
    CASE d.cls = "NotFoundError" -> NotFoundError(d.message)
      [] d.cls = "ValidationError" -> ValidationError(d.message)
      [] d.cls = "ConflictError" -> ConflictError(d.message)
      [] d.cls = "HttpError" ->
            HttpError(d.message,
                      IF d.statusCode = None THEN DefaultStatusCode
                      ELSE Val(d.statusCode),
                      d.code)
      [] OTHER ->
            [StoreError(d.message) EXCEPT !.name = d.name, !.code = d.code,
                                          !.statusCode = d.statusCode]

(***************************************************************************)
(* Responses.  An error envelope carries success = FALSE; a success        *)
(* response carries the payload (rows, pagination, delete message).        *)
(***************************************************************************)
NoResp ==
    [status |-> 0, success |-> None, error |-> None, code |-> None,
     data |-> <<>>, pagination |-> None, message |-> None, id |-> None,
     health |-> None]

\* { ...err }: the own enumerable properties of the thrown value.  The
\* fields statusCode, status and code are assigned in HttpError's
\* constructor; message is a non-enumerable own property created by
\* Error, and name lives on the prototype, so neither is copied.
SpreadErr(err) ==
    [cls |-> "Object", isHttp |-> FALSE, name |-> None, message |-> None,
     statusCode |-> err.statusCode, status |-> err.status, code |-> err.code]

GenericMessage == "Something went wrong"

\* The rewrites of errorHandler by name and code, applied in source order.
\* The duplicate-key code is the number 11000, written here as the text
\* "11000"; its message names the first key of error.keyPattern, which no
\* error of this service carries.
RewriteByName(error) ==
    LET e1 == IF error.name = Some("ValidationError")
              THEN [error EXCEPT !.statusCode = Some(400),
                                 !.code = Some("VALIDATION_ERROR")]
              ELSE error
        e2 == IF e1.code = Some("11000")
              THEN [e1 EXCEPT !.statusCode = Some(409),
                              !.code = Some("DUPLICATE_KEY"),
                              !.message = Some("undefined already exists")]
              ELSE e1
        e3 == IF e2.name = Some("JsonWebTokenError")
              THEN [e2 EXCEPT !.statusCode = Some(401),
                              !.code = Some("INVALID_TOKEN")]
              ELSE e2
        e4 == IF e3.name = Some("TokenExpiredError")
              THEN [e3 EXCEPT !.statusCode = Some(401),
                              !.code = Some("TOKEN_EXPIRED")]
              ELSE e3
    IN e4

\* An errorHandler whose wrapper inherits the name of the wrapped error.
errorHandlerKeepsName(err, env) ==
    LET wrapped == IF ~err.isHttp
                   THEN [HttpError(IF env = "production" THEN GenericMessage
                                   ELSE Val(err.message),
                                   500, Some("INTERNAL_SERVER_ERROR"))
                         EXCEPT !.name = err.name]
                   ELSE SpreadErr(err)
        error == RewriteByName(wrapped)
    IN [NoResp EXCEPT
          !.status = IF IsSome(error.statusCode) THEN Val(error.statusCode) ELSE 500,
          !.success = Some(FALSE),
          !.error = IF IsSome(error.message) /\ Val(error.message) # ""
                    THEN error.message ELSE Some(GenericMessage),
          !.code = IF IsSome(error.code) /\ Val(error.code) # ""
                   THEN error.code ELSE None]

\* errorHandler(err, req, res, _next): the response it writes.
errorHandler(err, env) ==
    LET wrapped == IF ~err.isHttp
                   THEN HttpError(IF env = "production" THEN GenericMessage
                                  ELSE Val(err.message),
                                  500, Some("INTERNAL_SERVER_ERROR"))
                   ELSE SpreadErr(err)
        error == RewriteByName(wrapped)
    IN [NoResp EXCEPT
          !.status = IF IsSome(error.statusCode) THEN Val(error.statusCode) ELSE 500,
          !.success = Some(FALSE),
          !.error = IF IsSome(error.message) /\ Val(error.message) # ""
                    THEN error.message ELSE Some(GenericMessage),
          !.code = IF IsSome(error.code) /\ Val(error.code) # ""
                   THEN error.code ELSE None]

(***************************************************************************)
(* Validation schemas (validationMiddleware.ts).  Each field rule returns  *)
(* the sequence of messages Joi reports for that field (quotes removed);   *)
(* a schema concatenates its fields' messages in declaration order         *)
(* (abortEarly: false).                                                    *)
(***************************************************************************)
LongName ==
    LET ten == "0123456789"
        fifty == ten \o ten \o ten \o ten \o ten
    IN fifty \o fifty \o "x"

ValidEmails == {"a@x.io", "b@x.io"}

IsEmail(s) == s \in ValidEmails

NameMin == 2
NameMax == 100
AgeMin == 0
AgeMax == 150
PageMin == 1
LimitMin == 1
LimitMax == 100

nameRule(v, required) ==
    IF v = None
    THEN IF required THEN <<"name is required">> ELSE <<>>
    ELSE IF Val(v) = ""
         THEN IF required THEN <<"Name is required">>
              ELSE <<"name is not allowed to be empty">>
    ELSE IF Len(Val(v)) < NameMin THEN <<"Name must be at least 2 characters">>
    ELSE IF Len(Val(v)) > NameMax THEN <<"Name must be at most 100 characters">>
    ELSE <<>>

emailRule(v, required) ==
    IF v = None
    THEN IF required THEN <<"email is required">> ELSE <<>>
    ELSE IF Val(v) = ""
         THEN IF required THEN <<"Email is required">>
              ELSE <<"email is not allowed to be empty">>
    ELSE IF ~IsEmail(Val(v)) THEN <<"Invalid email format">>
    ELSE <<>>

ageRule(v) ==
    IF v = None THEN <<>>
    ELSE IF Val(v) < AgeMin THEN <<"Age must be at least 0">>
    ELSE IF Val(v) > AgeMax THEN <<"Age must be at most 150">>
    ELSE <<>>

createUserSchema(body) ==
    nameRule(body.name, TRUE) \o emailRule(body.email, TRUE) \o ageRule(body.age)

updateUserSchema(body) ==
    nameRule(body.name, FALSE) \o emailRule(body.email, FALSE) \o ageRule(body.age)

\* A params schema without the uuid() rule.
idParamsSchemaAnyString(id) ==
    IF id = "" THEN <<"id is not allowed to be empty">> ELSE <<>>

idParamsSchema(id) ==
    IF id = "" THEN <<"id is not allowed to be empty">>
    ELSE IF ~IsUuid(id) THEN <<"Invalid ID format, must be UUID">>
    ELSE <<>>

\* Query-string values are text.  Joi's number type converts numeric text;
\* parseInt reads the same digits.  NumberOf is None for text that is not
\* a number.
NumericText ==
    [t \in {"0", "1", "2", "3", "101"} |->
        CASE t = "0" -> 0 [] t = "1" -> 1 [] t = "2" -> 2
          [] t = "3" -> 3 [] t = "101" -> 101]

NumberOf(t) == IF t \in DOMAIN NumericText THEN Some(NumericText[t]) ELSE None

pageRule(v) ==
    IF v = None THEN <<>>
    ELSE IF NumberOf(Val(v)) = None THEN <<"page must be a number">>
    ELSE IF Val(NumberOf(Val(v))) < PageMin
         THEN <<"page must be greater than or equal to 1">>
    ELSE <<>>

limitRule(v) ==
    IF v = None THEN <<>>
    ELSE IF NumberOf(Val(v)) = None THEN <<"limit must be a number">>
    ELSE IF Val(NumberOf(Val(v))) < LimitMin
         THEN <<"limit must be greater than or equal to 1">>
    ELSE IF Val(NumberOf(Val(v))) > LimitMax
         THEN <<"limit must be less than or equal to 100">>
    ELSE <<>>

paginationSchema(query) == pageRule(query.page) \o limitRule(query.limit)

RECURSIVE JoinMessages(_)
JoinMessages(msgs) ==
    IF Len(msgs) = 0 THEN ""
    ELSE IF Len(msgs) = 1 THEN msgs[1]
    ELSE msgs[1] \o ", " \o JoinMessages(Tail(msgs))

\* A validation that reports the first violation only (abortEarly: true).
validateRequestAbortEarly(violations) ==
    IF Len(violations) > 0
    THEN Some(ValidationError("Validation failed: " \o violations[1]))
    ELSE None

\* validateRequest(schema, property): None when next() is called, else the
\* ValidationError it throws.  `violations' is schema.validate's details.
validateRequest(violations) ==
    IF Len(violations) > 0
    THEN Some(ValidationError("Validation failed: " \o JoinMessages(violations)))
    ELSE None

\* parseInt(text) || dflt, as the List handler reads page and limit.
parseIntOr(v, dflt) ==
    IF v = None \/ NumberOf(Val(v)) = None \/ Val(NumberOf(Val(v))) = 0
    THEN dflt
    ELSE Val(NumberOf(Val(v)))

DefaultPage == 1
DefaultLimit == 10

(***************************************************************************)
(* The users table (migrate) and the statements the handlers send.         *)
(* A row is [id, name, email, age, createdAt, updatedAt]; age is None for  *)
(* SQL NULL.  id is the PRIMARY KEY and email is UNIQUE.                   *)
(***************************************************************************)
Columns == {"id", "name", "email", "age", "createdAt", "updatedAt"}

\* PostgreSQL folds an identifier written without double quotes to lower
\* case before it looks the column up; a quoted identifier is kept as is.
FoldCase(ident) ==
    CASE ident = "createdAt" -> "createdat"
      [] ident = "updatedAt" -> "updatedat"
      [] OTHER -> ident

Quoted(ident) == [name |-> ident, quoted |-> TRUE]
Bare(ident) == [name |-> ident, quoted |-> FALSE]

ResolveColumn(ref) == IF ref.quoted THEN ref.name ELSE FoldCase(ref.name)

\* A statement is accepted only if every column it names exists.
StatementOk(refs) == \A ref \in refs : ResolveColumn(ref) \in Columns

\* Column references of each statement of userRoutes.ts, as written there.
CountCols == {}
ListPageCols == {Bare("createdAt")}
SelectByIdCols == {Bare("id")}
SelectByEmailCols == {Bare("id"), Bare("email")}
InsertCols == {Bare("id"), Bare("name"), Bare("email"), Bare("age"),
               Quoted("createdAt"), Quoted("updatedAt")}
UpdateCols(body) ==
    {Bare("id"), Quoted("updatedAt")}
      \cup (IF IsSome(body.name) THEN {Bare("name")} ELSE {})
      \cup (IF IsSome(body.email) THEN {Bare("email")} ELSE {})
      \cup (IF IsSome(body.age) THEN {Bare("age")} ELSE {})
DeleteCols == {Bare("id")}

RowsById(rows, id) == {u \in rows : u.id = id}
RowsByEmail(rows, email) == {u \in rows : u.email = email}
\* The Update pre-check without `AND id != $2'.
RowsByEmailAnyId(rows, email, id) == {u \in rows : u.email = email}

RowsByEmailNotId(rows, email, id) == {u \in rows : u.email = email /\ u.id # id}

\* Constraints of the table: PRIMARY KEY (id), UNIQUE (email).
ConstraintsOk(rows) ==
    \A u, w \in rows : (u.id = w.id \/ u.email = w.email) => u = w

\* A users table whose email column is not UNIQUE.
InsertRowNoUnique(rows, row) ==
    IF RowsById(rows, row.id) = {}
    THEN [ok |-> TRUE, rows |-> rows \cup {row}, returned |-> <<row>>]
    ELSE [ok |-> FALSE, rows |-> rows, returned |-> <<>>]

\* INSERT ... RETURNING *: the new table, or a constraint violation.
InsertRow(rows, row) ==
    IF RowsById(rows, row.id) = {} /\ RowsByEmail(rows, row.email) = {}
    THEN [ok |-> TRUE, rows |-> rows \cup {row}, returned |-> <<row>>]
    ELSE [ok |-> FALSE, rows |-> rows, returned |-> <<>>]

\* A full replacement: every column is written, an unsupplied age as null.
ApplyUpdateReplace(u, body, now) ==
    [u EXCEPT !.name = IF IsSome(body.name) THEN Val(body.name) ELSE @,
              !.email = IF IsSome(body.email) THEN Val(body.email) ELSE @,
              !.age = body.age,
              !.updatedAt = now]

\* The row after UPDATE users SET <supplied fields>, "updatedAt" = now.
ApplyUpdate(u, body, now) ==
    [u EXCEPT !.name = IF IsSome(body.name) THEN Val(body.name) ELSE @,
              !.email = IF IsSome(body.email) THEN Val(body.email) ELSE @,
              !.age = IF IsSome(body.age) THEN body.age ELSE @,
              !.updatedAt = now]

\* An UPDATE that fails when its WHERE clause matches no row.
UpdateRowMustMatch(rows, id, body, now) ==
    LET hit == RowsById(rows, id)
        new == (rows \ hit) \cup {ApplyUpdate(u, body, now) : u \in hit}
    IN IF hit = {} \/ ~ConstraintsOk(new)
       THEN [ok |-> FALSE, rows |-> rows, returned |-> <<>>]
       ELSE [ok |-> TRUE, rows |-> new,
             returned |-> <<ApplyUpdate(CHOOSE u \in hit : TRUE, body, now)>>]

\* UPDATE ... WHERE id = $1 RETURNING *.
UpdateRow(rows, id, body, now) ==
    LET hit == RowsById(rows, id)
        new == (rows \ hit) \cup {ApplyUpdate(u, body, now) : u \in hit}
    IN IF hit = {} THEN [ok |-> TRUE, rows |-> rows, returned |-> <<>>]
       ELSE IF ~ConstraintsOk(new)
       THEN [ok |-> FALSE, rows |-> rows, returned |-> <<>>]
       ELSE [ok |-> TRUE, rows |-> new,
             returned |-> <<ApplyUpdate(CHOOSE u \in hit : TRUE, body, now)>>]

\* A DELETE whose RETURNING list is never empty.
DeleteRowAlwaysReturns(rows, id) ==
    [ok |-> TRUE, rows |-> rows \ RowsById(rows, id), returned |-> <<id>>]

\* DELETE FROM users WHERE id = $1 RETURNING id.
DeleteRow(rows, id) ==
    [ok |-> TRUE, rows |-> rows \ RowsById(rows, id),
     returned |-> IF RowsById(rows, id) = {} THEN <<>> ELSE <<id>>]

\* The orders ORDER BY createdAt DESC may return the rows in.
Orderings(rows) ==
    {ord \in [1..Cardinality(rows) -> rows] :
        /\ \A i, j \in 1..Cardinality(rows) : i # j => ord[i] # ord[j]
        /\ \A i, j \in 1..Cardinality(rows) :
              i < j => ord[i].createdAt >= ord[j].createdAt}

Min(a, b) == IF a < b THEN a ELSE b

\* LIMIT limit OFFSET offset over an ordering.
PageOf(ord, limit, offset) ==
    SubSeq(ord, offset + 1, Min(offset + limit, Len(ord)))

\* Math.ceil(total / limit)
CeilDiv(total, limit) == (total + limit - 1) \div limit

(***************************************************************************)
(* Requests.  reqs[r] is the request in slot r: its route (op), its raw    *)
(* input (id, body, query), the handler's locals (now, newId, total), its  *)
(* position pc (the statement the store executes next), the response, the *)
(* error that reached errorHandler (err) and whether errorHandler logged   *)
(* it, the constructor call that built a raised error (ctor), and two      *)
(* counters: nq, the db.query calls the store has executed for it, and nw, *)
(* the rows it has inserted, changed or deleted.                           *)
(***************************************************************************)
NoBody == [name |-> None, email |-> None, age |-> None]
NoQuery == [page |-> None, limit |-> None]

IdleReq ==
    [op |-> "none", pc |-> "idle", id |-> "", body |-> NoBody,
     query |-> NoQuery, now |-> 0, newId |-> "", total |-> 0,
     resp |-> NoResp, err |-> None, nq |-> 0, nw |-> 0,
     ctor |-> None, logged |-> FALSE, level |-> None]

\* A request enters its route: op and raw input are fixed.
Enter(op, id, body, query) ==
    [IdleReq EXCEPT !.op = op, !.id = id, !.body = body, !.query = query]

\* loggerMiddleware's 'finish' listener: the level it logs the finished
\* response at.
LogLevel(statusCode) ==
    IF statusCode >= 400 THEN "warn"
    ELSE IF statusCode >= 500 THEN "error"
    ELSE "info"

\* The response is written (by the handler or by errorHandler) and
\* finishes, which loggerMiddleware logs.
Finished(req, resp) ==
    [req EXCEPT !.pc = "done", !.resp = resp,
                !.level = Some(LogLevel(resp.status))]

\* An errorHandler that answers without logging.
ThrownSilently(req, err) ==
    [Finished(req, errorHandler(err, nodeEnv)) EXCEPT !.err = Some(err)]

\* An error reaches errorHandler, which logs it (logger.error) and then
\* writes the error envelope.
Thrown(req, err) ==
    [Finished(req, errorHandler(err, nodeEnv)) EXCEPT !.err = Some(err),
                                                      !.logged = TRUE]

\* The store has executed one more db.query of the request.
Queried(req) == [req EXCEPT !.nq = @ + 1]

(***************************************************************************)
(* Store availability and the catch clause of each route.                  *)
(***************************************************************************)
\* Database.query resolves: the store is reachable and accepts the statement.
QueryOk(refs) == dbUp /\ StatementOk(refs)

\* The error pool.query rejects with when the statement does not run to
\* completion.
QueryError(refs) ==
    StoreError(IF ~dbUp THEN "connect ECONNREFUSED"
               ELSE IF ~StatementOk(refs) THEN "column does not exist"
               ELSE "duplicate key value violates unique constraint")

\* catch (error) of router.get('/'): every error is replaced.
listCatch(error) ==
    HttpError("Failed to fetch users", 500, Some("DATABASE_ERROR"))

\* catch (error) of router.get('/:id')
getCatch(error) ==
    IF error.cls = "NotFoundError" THEN error
    ELSE HttpError("Failed to fetch user", 500, Some("DATABASE_ERROR"))

\* catch (error) of router.post('/')
\* A hardened catch clause that classifies a store failure as a conflict.
createCatchConflict(error) ==
    IF error.cls = "ConflictError" THEN error
    ELSE ConflictError("Email already exists")

createCatch(error) ==
    IF error.cls = "ConflictError" THEN error
    ELSE HttpError("Failed to create user", 500, Some("DATABASE_ERROR"))

\* catch (error) of router.put('/:id')
updateCatch(error) ==
    IF error.isHttp THEN error
    ELSE HttpError("Failed to update user", 500, Some("DATABASE_ERROR"))

\* catch (error) of router.delete('/:id')
\* A catch clause that rethrows whatever it caught.
deleteCatchRethrows(error) == error

deleteCatch(error) ==
    IF error.cls = "NotFoundError" THEN error
    ELSE HttpError("Failed to delete user", 500, Some("DATABASE_ERROR"))


\* --- GET /api/users ----------------------------------------------------
ArriveList(r, query) ==
    /\ reqs[r].pc = "idle"
    /\ LET req == Enter("list", "", NoBody, query)
           bad == validateRequest(paginationSchema(query))
       IN reqs' = [reqs EXCEPT ![r] =
              IF IsSome(bad) THEN Thrown(req, Val(bad))
              ELSE [req EXCEPT !.pc = "count"]]
    /\ UNCHANGED <<users, clock, nextId, nodeEnv, issued, dbUp, tx, proc>>

\* SELECT COUNT(*) FROM users
ListCount(r) ==
    /\ reqs[r].pc = "count"
    /\ reqs' = [reqs EXCEPT ![r] =
          IF QueryOk(CountCols)
          THEN [Queried(@) EXCEPT !.pc = "page", !.total = Cardinality(users)]
          ELSE Thrown(Queried(@), listCatch(QueryError(CountCols)))]
    /\ UNCHANGED <<users, clock, nextId, nodeEnv, issued, dbUp, tx, proc>>

\* SELECT * FROM users ORDER BY createdAt DESC LIMIT $1 OFFSET $2
ListPage(r) ==
    /\ reqs[r].pc = "page"
    /\ LET req == reqs[r]
           page == parseIntOr(req.query.page, DefaultPage)
           limit == parseIntOr(req.query.limit, DefaultLimit)
           offset == (page - 1) * limit
       IN IF QueryOk(ListPageCols)
          THEN \E ord \in Orderings(users) :
                 reqs' = [reqs EXCEPT ![r] =
                    Finished(Queried(req),
                      [NoResp EXCEPT
                         !.status = 200,
                         !.data = PageOf(ord, limit, offset),
                         !.pagination = Some([page |-> page, limit |-> limit,
                                              total |-> req.total,
                                              totalPages |-> CeilDiv(req.total, limit)])])]
          ELSE reqs' = [reqs EXCEPT ![r] =
                 Thrown(Queried(req), listCatch(QueryError(ListPageCols)))]
    /\ UNCHANGED <<users, clock, nextId, nodeEnv, issued, dbUp, tx, proc>>

\* --- GET /api/users/:id ------------------------------------------------
ArriveGet(r, id) ==
    /\ reqs[r].pc = "idle"
    /\ LET req == Enter("get", id, NoBody, NoQuery)
           bad == validateRequest(idParamsSchema(id))
       IN reqs' = [reqs EXCEPT ![r] =
              IF IsSome(bad) THEN Thrown(req, Val(bad))
              ELSE [req EXCEPT !.pc = "select"]]
    /\ UNCHANGED <<users, clock, nextId, nodeEnv, issued, dbUp, tx, proc>>

\* SELECT * FROM users WHERE id = $1
GetSelect(r) ==
    /\ reqs[r].pc = "select"
    /\ LET req == Queried(reqs[r])
           hit == RowsById(users, req.id)
       IN reqs' = [reqs EXCEPT ![r] =
              IF ~QueryOk(SelectByIdCols)
              THEN Thrown(req, getCatch(QueryError(SelectByIdCols)))
              ELSE IF hit = {}
              THEN Thrown(req, getCatch(NotFoundError("User not found")))
              ELSE Finished(req,
                            [NoResp EXCEPT !.status = 200,
                                           !.data = <<CHOOSE u \in hit : TRUE>>])]
    /\ UNCHANGED <<users, clock, nextId, nodeEnv, issued, dbUp, tx, proc>>

\* --- POST /api/users ---------------------------------------------------
\* age || null, the value bound to $4 of the INSERT.
ageOrNull(age) == IF age = None \/ Val(age) = 0 THEN None ELSE age

ArriveCreate(r, body) ==
    /\ reqs[r].pc = "idle"
    /\ LET req == Enter("create", "", body, NoQuery)
           bad == validateRequest(createUserSchema(body))
       IN IF IsSome(bad)
          THEN /\ reqs' = [reqs EXCEPT ![r] =
                      Thrown(req, Val(bad))]
               /\ UNCHANGED nextId
          ELSE /\ nextId <= MaxIds
               /\ reqs' = [reqs EXCEPT ![r] =
                      [req EXCEPT !.pc = "check", !.newId = uuidv4(nextId),
                                  !.now = clock]]
               /\ nextId' = nextId + 1
    /\ UNCHANGED <<users, clock, nodeEnv, issued, dbUp, tx, proc>>

\* SELECT id FROM users WHERE email = $1
CreateCheck(r) ==
    /\ reqs[r].pc = "check"
    /\ LET req == Queried(reqs[r])
       IN reqs' = [reqs EXCEPT ![r] =
              IF ~QueryOk(SelectByEmailCols)
              THEN Thrown(req, createCatch(QueryError(SelectByEmailCols)))
              ELSE IF RowsByEmail(users, Val(req.body.email)) # {}
              THEN Thrown(req, createCatch(ConflictError("Email already exists")))
              ELSE [req EXCEPT !.pc = "insert"]]
    /\ UNCHANGED <<users, clock, nextId, nodeEnv, issued, dbUp, tx, proc>>

\* INSERT INTO users (...) VALUES ($1, ..., $6) RETURNING *
CreateInsert(r) ==
    /\ reqs[r].pc = "insert"
    /\ LET req == Queried(reqs[r])
           row == [id |-> req.newId, name |-> Val(req.body.name),
                   email |-> Val(req.body.email), age |-> ageOrNull(req.body.age),
                   createdAt |-> req.now, updatedAt |-> req.now]
           res == InsertRow(users, row)
       IN IF QueryOk(InsertCols) /\ res.ok
          THEN /\ users' = res.rows
               /\ reqs' = [reqs EXCEPT ![r] =
                      Finished([req EXCEPT !.nw = @ + 1],
                               [NoResp EXCEPT !.status = 201, !.data = res.returned])]
               /\ issued' = issued \cup {res.returned[1].id}
          ELSE /\ users' = users
               /\ reqs' = [reqs EXCEPT ![r] =
                      Thrown(req, createCatch(QueryError(InsertCols)))]
               /\ UNCHANGED issued
    /\ UNCHANGED <<clock, nextId, nodeEnv, dbUp, tx, proc>>

\* --- PUT /api/users/:id ------------------------------------------------
\* A handler that never finds the SET list empty.
NoUpdatesNever(body) == FALSE

\* The SET list built from the body is empty (updates.length === 0).
NoUpdates(body) == body.name = None /\ body.email = None /\ body.age = None

\* if (email): the body carries a non-empty email.
Truthy(v) == IsSome(v) /\ Val(v) # ""

\* A handler without the updates.length === 0 rejection.
BuildUpdateNoReject(req) == [req EXCEPT !.pc = "update"]

\* The handler after its pre-checks: reject an empty SET list, else send
\* the UPDATE.
BuildUpdate(req) ==
    IF NoUpdates(req.body)
    THEN Thrown(req, updateCatch(HttpError("No fields to update", 400, Some("NO_UPDATES"))))
    ELSE [req EXCEPT !.pc = "update"]

ArriveUpdate(r, id, body) ==
    /\ reqs[r].pc = "idle"
    /\ LET req == Enter("update", id, body, NoQuery)
           badId == validateRequest(idParamsSchema(id))
           badBody == validateRequest(updateUserSchema(body))
       IN reqs' = [reqs EXCEPT ![r] =
              IF IsSome(badId) THEN Thrown(req, Val(badId))
              ELSE IF IsSome(badBody)
              THEN Thrown(req, Val(badBody))
              ELSE [req EXCEPT !.pc = "exists", !.now = clock]]
    /\ UNCHANGED <<users, clock, nextId, nodeEnv, issued, dbUp, tx, proc>>

\* SELECT id FROM users WHERE id = $1
UpdateExists(r) ==
    /\ reqs[r].pc = "exists"
    /\ LET req == Queried(reqs[r])
       IN reqs' = [reqs EXCEPT ![r] =
              IF ~QueryOk(SelectByIdCols)
              THEN Thrown(req, updateCatch(QueryError(SelectByIdCols)))
              ELSE IF RowsById(users, req.id) = {}
              THEN Thrown(req, updateCatch(NotFoundError("User not found")))
              ELSE IF Truthy(req.body.email)
              THEN [req EXCEPT !.pc = "emailCheck"]
              ELSE BuildUpdate(req)]
    /\ UNCHANGED <<users, clock, nextId, nodeEnv, issued, dbUp, tx, proc>>

\* SELECT id FROM users WHERE email = $1 AND id != $2
UpdateEmailCheck(r) ==
    /\ reqs[r].pc = "emailCheck"
    /\ LET req == Queried(reqs[r])
       IN reqs' = [reqs EXCEPT ![r] =
              IF ~QueryOk(SelectByEmailCols)
              THEN Thrown(req, updateCatch(QueryError(SelectByEmailCols)))
              ELSE IF RowsByEmailNotId(users, Val(req.body.email), req.id) # {}
              THEN Thrown(req, updateCatch(ConflictError("Email already exists")))
              ELSE BuildUpdate(req)]
    /\ UNCHANGED <<users, clock, nextId, nodeEnv, issued, dbUp, tx, proc>>

\* UPDATE users SET ... WHERE id = $1 RETURNING *
UpdateWrite(r) ==
    /\ reqs[r].pc = "update"
    /\ LET req == Queried(reqs[r])
           res == UpdateRow(users, req.id, req.body, req.now)
       IN IF ~(QueryOk(UpdateCols(req.body)) /\ res.ok)
          THEN /\ users' = users
               /\ reqs' = [reqs EXCEPT ![r] =
                      Thrown(req, updateCatch(QueryError(UpdateCols(req.body))))]
          ELSE IF res.returned = <<>>
          THEN /\ users' = users
               /\ reqs' = [reqs EXCEPT ![r] =
                      Thrown(req, updateCatch(NotFoundError("User not found")))]
          ELSE /\ users' = res.rows
               /\ reqs' = [reqs EXCEPT ![r] =
                      Finished([req EXCEPT !.nw = @ + 1],
                               [NoResp EXCEPT !.status = 200, !.data = res.returned])]
    /\ UNCHANGED <<clock, nextId, nodeEnv, issued, dbUp, tx, proc>>

\* --- DELETE /api/users/:id ---------------------------------------------
ArriveDelete(r, id) ==
    /\ reqs[r].pc = "idle"
    /\ LET req == Enter("delete", id, NoBody, NoQuery)
           bad == validateRequest(idParamsSchema(id))
       IN reqs' = [reqs EXCEPT ![r] =
              IF IsSome(bad) THEN Thrown(req, Val(bad))
              ELSE [req EXCEPT !.pc = "delete"]]
    /\ UNCHANGED <<users, clock, nextId, nodeEnv, issued, dbUp, tx, proc>>

\* A soft delete: the row is answered as deleted but stays in the table.
DeleteWriteSoft(r) ==
    /\ reqs[r].pc = "delete"
    /\ LET req == Queried(reqs[r])
           res == DeleteRow(users, req.id)
       IN IF ~QueryOk(DeleteCols)
          THEN /\ users' = users
               /\ reqs' = [reqs EXCEPT ![r] =
                      Thrown(req, deleteCatch(QueryError(DeleteCols)))]
          ELSE IF res.returned = <<>>
          THEN /\ users' = users
               /\ reqs' = [reqs EXCEPT ![r] =
                      Thrown(req, deleteCatch(NotFoundError("User not found")))]
          ELSE /\ users' = users
               /\ reqs' = [reqs EXCEPT ![r] =
                      Finished([req EXCEPT !.nw = @ + 1],
                               [NoResp EXCEPT
                                  !.status = 200,
                                  !.message = Some("User deleted successfully"),
                                  !.id = Some(req.id)])]
    /\ UNCHANGED <<clock, nextId, nodeEnv, issued, dbUp, tx, proc>>

\* DELETE FROM users WHERE id = $1 RETURNING id
DeleteWrite(r) ==
    /\ reqs[r].pc = "delete"
    /\ LET req == Queried(reqs[r])
           res == DeleteRow(users, req.id)
       IN IF ~QueryOk(DeleteCols)
          THEN /\ users' = users
               /\ reqs' = [reqs EXCEPT ![r] =
                      Thrown(req, deleteCatch(QueryError(DeleteCols)))]
          ELSE IF res.returned = <<>>
          THEN /\ users' = users
               /\ reqs' = [reqs EXCEPT ![r] =
                      Thrown(req, deleteCatch(NotFoundError("User not found")))]
          ELSE /\ users' = res.rows
               /\ reqs' = [reqs EXCEPT ![r] =
                      Finished([req EXCEPT !.nw = @ + 1],
                               [NoResp EXCEPT
                                  !.status = 200,
                                  !.message = Some("User deleted successfully"),
                                  !.id = Some(req.id)])]
    /\ UNCHANGED <<clock, nextId, nodeEnv, issued, dbUp, tx, proc>>

\* --- the environment ---------------------------------------------------
\* The response has been sent; the slot takes the next request.
Finish(r) ==
    /\ reqs[r].pc = "done"
    /\ reqs' = [reqs EXCEPT ![r] = IdleReq]
    /\ UNCHANGED <<users, clock, nextId, nodeEnv, issued, dbUp, tx, proc>>

\* The wall clock (new Date()) advances.
Tick ==
    /\ clock < MaxClock
    /\ clock' = clock + 1
    /\ UNCHANGED <<users, reqs, nextId, nodeEnv, issued, dbUp, tx, proc>>

\* Calls of Database.transaction that may be in progress at the same time.
Txs == {"t1", "t2"}

\* A call of Database.transaction: its position pc, the events it has
\* produced in order (trace), the statements that rejected (failed) and how
\* the call ended (outcome).
IdleTx == [pc |-> "idle", trace |-> <<>>, failed |-> {}, outcome |-> None]

\* The server process after startServer: the HTTP server listens, the pool
\* is open, no signal has arrived, the process has not exited.
Running ==
    [server |-> "listening", pool |-> "open", timer |-> FALSE,
     signal |-> None, exit |-> None]

NodeEnvs == {"production", "development"}

Init ==
    /\ users = {}
    /\ reqs = [r \in Reqs |-> IdleReq]
    /\ clock = 0
    /\ nextId = 1
    /\ nodeEnv \in NodeEnvs
    /\ issued = {}
    /\ dbUp = TRUE
    /\ tx = [t \in Txs |-> IdleTx]
    /\ proc = Running

\* One store step of the request in slot r.
Step(r) ==
    \/ ListCount(r) \/ ListPage(r)
    \/ GetSelect(r)
    \/ CreateCheck(r) \/ CreateInsert(r)
    \/ UpdateExists(r) \/ UpdateEmailCheck(r) \/ UpdateWrite(r)
    \/ DeleteWrite(r)
    \/ Finish(r)

(***************************************************************************)
(* Spec: two requests in flight at once, over a small input alphabet.      *)
(***************************************************************************)
Body(name, email, age) == [name |-> name, email |-> email, age |-> age]

PathIds == {"u1", "u2"}

Queries == {NoQuery}

CreateBodies == {Body(Some("Al"), Some(e), Some(30)) : e \in ValidEmails}

UpdateBodies == {NoBody} \cup {Body(None, Some(e), None) : e \in ValidEmails}

Next ==
    \/ \E r \in Reqs, q \in Queries : ArriveList(r, q)
    \/ \E r \in Reqs, id \in PathIds : ArriveGet(r, id)
    \/ \E r \in Reqs, b \in CreateBodies : ArriveCreate(r, b)
    \/ \E r \in Reqs, id \in PathIds, b \in UpdateBodies : ArriveUpdate(r, id, b)
    \/ \E r \in Reqs, id \in PathIds : ArriveDelete(r, id)
    \/ \E r \in Reqs : Step(r)
    \/ Tick

Spec == Init /\ [][Next]_vars

(***************************************************************************)
(* SpecSeq: one request at a time (a quiescent store between requests),    *)
(* over a richer input alphabet that covers every rule of every schema.    *)
(***************************************************************************)
SeqNames == {None, Some("A"), Some("Al"), Some(LongName)}
SeqEmails == {None, Some("a@x.io"), Some("b@x.io"), Some("invalid-email")}
SeqAges == {None, Some(-1), Some(0), Some(150), Some(151)}
SeqBodies == {Body(n, e, a) : n \in SeqNames, e \in SeqEmails, a \in SeqAges}
SeqPathIds == {"u1", "u6", "invalid-id"}
SeqTexts == {None, Some("0"), Some("1"), Some("2"), Some("101"), Some("abc")}
SeqQueries == {[page |-> p, limit |-> l] : p \in SeqTexts, l \in SeqTexts}

NextSeq ==
    \/ \E q \in SeqQueries : ArriveList("r1", q)
    \/ \E id \in SeqPathIds : ArriveGet("r1", id)
    \/ \E b \in SeqBodies : ArriveCreate("r1", b)
    \/ \E id \in SeqPathIds, b \in SeqBodies : ArriveUpdate("r1", id, b)
    \/ \E id \in SeqPathIds : ArriveDelete("r1", id)
    \/ Step("r1")
    \/ Tick

SpecSeq == Init /\ [][NextSeq]_vars

TypeOK ==
    /\ \A u \in users : IsUuid(u.id)
    /\ clock \in 0..MaxClock
    /\ nextId \in 1..(MaxIds + 1)

(***************************************************************************)
(* Health routes (healthRoutes.ts) and Database.healthCheck.  The response *)
(* field health is the status text of the body.                            *)
(***************************************************************************)
PingCols == {}

\* A health check that reports a connected store whatever the ping does.
healthCheckAlwaysTrue == TRUE

\* Database.healthCheck: true when `SELECT 1 as ping' answers, false from
\* its catch clause when the query rejects.
healthCheck == IF QueryOk(PingCols) THEN TRUE ELSE FALSE

HealthPaths == {"/", "/ready", "/live"}

\* GET /health, /health/ready, /health/live.  The liveness probe answers
\* without touching the store; the other two await healthCheck.
ArriveHealth(r, path) ==
    /\ reqs[r].pc = "idle"
    /\ LET req == Enter(path, "", NoBody, NoQuery)
       IN reqs' = [reqs EXCEPT ![r] =
            IF path = "/live"
            THEN Finished(req, [NoResp EXCEPT !.status = 200,
                                              !.health = Some("alive")])
            ELSE [req EXCEPT !.pc = "ping"]]
    /\ UNCHANGED <<users, clock, nextId, nodeEnv, issued, dbUp, tx, proc>>

HealthPing(r) ==
    /\ reqs[r].pc = "ping"
    /\ LET req == Queried(reqs[r])
           up == healthCheck
           text == IF req.op = "/"
                   THEN IF up THEN "healthy" ELSE "unhealthy"
                   ELSE IF up THEN "ready" ELSE "not ready"
       IN reqs' = [reqs EXCEPT ![r] =
            Finished(req, [NoResp EXCEPT !.status = IF up THEN 200 ELSE 503,
                                         !.health = Some(text)])]
    /\ UNCHANGED <<users, clock, nextId, nodeEnv, issued, dbUp, tx, proc>>

\* The store stops answering (pool.query rejects) and answers again.
StoreDown ==
    /\ dbUp
    /\ dbUp' = FALSE
    /\ UNCHANGED <<users, reqs, clock, nextId, nodeEnv, issued, tx, proc>>

StoreUp ==
    /\ ~dbUp
    /\ dbUp' = TRUE
    /\ UNCHANGED <<users, reqs, clock, nextId, nodeEnv, issued, tx, proc>>

\* One step of the request in slot r, health routes included.
OpsStep(r) == Step(r) \/ HealthPing(r)

(***************************************************************************)
(* SpecOps: the user and health routes, two requests in flight, while the  *)
(* store goes down and comes back.                                         *)
(***************************************************************************)
OpsPathIds == {"u1"}

OpsCreateBodies == {Body(Some("Al"), Some("a@x.io"), Some(30))}

OpsUpdateBodies == {NoBody, Body(None, Some("a@x.io"), None)}

NextOps ==
    \/ \E r \in Reqs, q \in Queries : ArriveList(r, q)
    \/ \E r \in Reqs, id \in OpsPathIds : ArriveGet(r, id)
    \/ \E r \in Reqs, b \in OpsCreateBodies : ArriveCreate(r, b)
    \/ \E r \in Reqs, id \in OpsPathIds, b \in OpsUpdateBodies :
          ArriveUpdate(r, id, b)
    \/ \E r \in Reqs, id \in OpsPathIds : ArriveDelete(r, id)
    \/ \E r \in Reqs, path \in HealthPaths : ArriveHealth(r, path)
    \/ \E r \in Reqs : OpsStep(r)
    \/ StoreDown
    \/ StoreUp
    \/ Tick

SpecOps == Init /\ [][NextOps]_vars

(***************************************************************************)
(* SpecLive: requests of every route in slot r1, valid and invalid, next   *)
(* to Deletes in slot r2, while the store goes down and comes back, with   *)
(* the scheduling the event loop gives a request: a pending store reply or *)
(* continuation of a handler is eventually run (the store answers or       *)
(* rejects every query).                                                   *)
(***************************************************************************)
LivePathIds == {"u1", "invalid-id"}

LiveQueries == {NoQuery, [page |-> Some("abc"), limit |-> None]}

LiveCreateBodies ==
    OpsCreateBodies \cup {Body(Some("A"), Some("invalid-email"), None)}

LiveUpdateBodies == OpsUpdateBodies \cup {Body(None, None, Some(151))}

NextLive ==
    \/ \E q \in LiveQueries : ArriveList("r1", q)
    \/ \E id \in LivePathIds : ArriveGet("r1", id)
    \/ \E b \in LiveCreateBodies : ArriveCreate("r1", b)
    \/ \E id \in LivePathIds, b \in LiveUpdateBodies : ArriveUpdate("r1", id, b)
    \/ \E r \in Reqs, id \in LivePathIds : ArriveDelete(r, id)
    \/ \E path \in HealthPaths : ArriveHealth("r1", path)
    \/ \E r \in Reqs : OpsStep(r)
    \/ StoreDown
    \/ StoreUp
    \/ Tick

SpecLive ==
    Init /\ [][NextLive]_vars /\ \A r \in Reqs : WF_vars(OpsStep(r))

(***************************************************************************)
(* SpecErr: errors handed to errorHandler by next(err), one at a time.     *)
(***************************************************************************)
ErrMessages == {"", "boom"}

ErrStatusCodes == {200, 399, 400, 404, 409, 499, 500, 503}

ErrNames == {"Error", "SyntaxError", "ValidationError", "JsonWebTokenError",
             "TokenExpiredError"}

ErrCodes == {None, Some("11000"), Some("ECONNRESET")}

Ctor(cls, name, message, statusCode, code) ==
    [cls |-> cls, name |-> name, message |-> message,
     statusCode |-> statusCode, code |-> code]

TaxonomyCtors ==
    {Ctor(c, None, m, None, None) :
        c \in {"NotFoundError", "ValidationError", "ConflictError", "HttpError"},
        m \in ErrMessages}
    \cup {Ctor("HttpError", None, m, Some(sc), cd) :
            m \in ErrMessages, sc \in ErrStatusCodes,
            cd \in {None, Some("TEAPOT")}}

PlainCtors ==
    {Ctor("Error", Some(n), m, sc, cd) :
        n \in ErrNames, m \in ErrMessages, sc \in {None, Some(400)},
        cd \in ErrCodes}

\* A middleware hands the error built by constructor call d to
\* errorHandler (next(err)).
Raise(r, d) ==
    /\ reqs[r].pc = "idle"
    /\ LET req == [Enter("raise", "", NoBody, NoQuery) EXCEPT !.ctor = Some(d)]
       IN reqs' = [reqs EXCEPT ![r] = Thrown(req, Construct(d))]
    /\ UNCHANGED <<users, clock, nextId, nodeEnv, issued, dbUp, tx, proc>>

NextErr ==
    \/ \E d \in TaxonomyCtors \cup PlainCtors : Raise("r1", d)
    \/ Finish("r1")

SpecErr == Init /\ [][NextErr]_vars

(***************************************************************************)
(* Database.transaction(callback) (database.ts).  Each await is one step;  *)
(* the code that runs after an await up to the next one, the catch and     *)
(* finally blocks included, belongs to the same step.  A statement sent on *)
(* the client resolves when the store answers and rejects when it does     *)
(* not; the callback may also reject for reasons of its own.               *)
(***************************************************************************)
Emit(x, event) == [x EXCEPT !.trace = Append(@, event)]

Reject(x, statement) == [x EXCEPT !.failed = @ \cup {statement}]

\* A release that is skipped when ROLLBACK rejected (a release written at
\* the end of the catch block instead of in a finally block).
finallyAfterRollbackOnly(x) ==
    IF "ROLLBACK" \in x.failed THEN x ELSE Emit(x, "release")

\* finally { client.release() }
finally(x) == Emit(x, "release")

\* The call ends: it returns the callback's result or throws.
Ended(x, outcome) == [x EXCEPT !.pc = "done", !.outcome = Some(outcome)]

TxCall(t) ==
    /\ tx[t].pc = "idle"
    /\ tx' = [tx EXCEPT ![t] = [IdleTx EXCEPT !.pc = "connect"]]
    /\ UNCHANGED <<users, reqs, clock, nextId, nodeEnv, issued, dbUp, proc>>

\* const client = await this.pool.connect(), outside the try block.
TxConnect(t) ==
    /\ tx[t].pc = "connect"
    /\ tx' = [tx EXCEPT ![t] =
          IF dbUp THEN [Emit(@, "connect") EXCEPT !.pc = "begin"]
          ELSE Ended(Reject(@, "connect"), "threw connect error")]
    /\ UNCHANGED <<users, reqs, clock, nextId, nodeEnv, issued, dbUp, proc>>

\* await client.query('BEGIN')
TxBegin(t) ==
    /\ tx[t].pc = "begin"
    /\ tx' = [tx EXCEPT ![t] =
          IF QueryOk({}) THEN [Emit(@, "BEGIN") EXCEPT !.pc = "callback"]
          ELSE [Reject(Emit(@, "BEGIN"), "BEGIN") EXCEPT !.pc = "rollback"]]
    /\ UNCHANGED <<users, reqs, clock, nextId, nodeEnv, issued, dbUp, proc>>

\* const result = await callback(client)
TxCallback(t, ok) ==
    /\ tx[t].pc = "callback"
    /\ tx' = [tx EXCEPT ![t] =
          IF ok THEN [Emit(@, "callback") EXCEPT !.pc = "commit"]
          ELSE [Reject(Emit(@, "callback"), "callback") EXCEPT !.pc = "rollback"]]
    /\ UNCHANGED <<users, reqs, clock, nextId, nodeEnv, issued, dbUp, proc>>

\* await client.query('COMMIT'); return result (through finally).
TxCommit(t) ==
    /\ tx[t].pc = "commit"
    /\ tx' = [tx EXCEPT ![t] =
          IF QueryOk({})
          THEN Ended(finally(Emit(@, "COMMIT")), "returned")
          ELSE [Reject(Emit(@, "COMMIT"), "COMMIT") EXCEPT !.pc = "rollback"]]
    /\ UNCHANGED <<users, reqs, clock, nextId, nodeEnv, issued, dbUp, proc>>

\* catch: await client.query('ROLLBACK'); logger.error; throw error (through
\* finally).  A rejected ROLLBACK leaves the catch block with its own error.
TxRollback(t) ==
    /\ tx[t].pc = "rollback"
    /\ tx' = [tx EXCEPT ![t] =
          IF QueryOk({})
          THEN Ended(finally(Emit(Emit(@, "ROLLBACK"), "log")), "threw error")
          ELSE Ended(finally(Reject(Emit(@, "ROLLBACK"), "ROLLBACK")),
                     "threw ROLLBACK error")]
    /\ UNCHANGED <<users, reqs, clock, nextId, nodeEnv, issued, dbUp, proc>>

\* The caller has the result; the slot takes the next call.
TxReturn(t) ==
    /\ tx[t].pc = "done"
    /\ tx' = [tx EXCEPT ![t] = IdleTx]
    /\ UNCHANGED <<users, reqs, clock, nextId, nodeEnv, issued, dbUp, proc>>

(***************************************************************************)
(* SpecTx: two calls of Database.transaction at a time, while the store    *)
(* goes down and comes back.                                               *)
(***************************************************************************)
NextTx ==
    \/ \E t \in Txs : TxCall(t)
    \/ \E t \in Txs : TxConnect(t)
    \/ \E t \in Txs : TxBegin(t)
    \/ \E t \in Txs, ok \in BOOLEAN : TxCallback(t, ok)
    \/ \E t \in Txs : TxCommit(t)
    \/ \E t \in Txs : TxRollback(t)
    \/ \E t \in Txs : TxReturn(t)
    \/ StoreDown
    \/ StoreUp

SpecTx == Init /\ [][NextTx]_vars

(***************************************************************************)
(* Signals (app.ts, server.ts).  process.on appends a listener; a signal   *)
(* runs the listeners in registration order.  app.ts registers its         *)
(* listeners when it is imported, which server.ts does before startServer  *)
(* registers shutdown.  process.exit ends the process at once: listeners   *)
(* after it, pending callbacks and timers never run.                       *)
(***************************************************************************)
Signals == {"SIGTERM", "SIGINT"}

SignalListeners == <<"app.ts", "server.ts">>

\* app.ts: logger.info(...); process.exit(0)
appOnSignal(p) == [p EXCEPT !.exit = Some(0)]

\* server.ts shutdown: server.close(callback) stops the server accepting
\* connections, and the force-shutdown timer is armed.  The callback
\* (db.close(), process.exit(0)) and the timer (process.exit(1)) run later.
shutdown(p) == [p EXCEPT !.server = "closing", !.timer = TRUE]

RECURSIVE RunListeners(_, _)
RunListeners(listeners, p) ==
    IF Len(listeners) = 0 \/ p.exit # None THEN p
    ELSE RunListeners(Tail(listeners),
                      IF Head(listeners) = "app.ts" THEN appOnSignal(p)
                      ELSE shutdown(p))

\* SIGTERM or SIGINT is delivered to the running process.
Signal(sig) ==
    /\ proc.exit = None
    /\ proc' = RunListeners(SignalListeners, [proc EXCEPT !.signal = Some(sig)])
    /\ UNCHANGED <<users, reqs, clock, nextId, nodeEnv, issued, dbUp, tx>>

(***************************************************************************)
(* SpecProc: the server process handling requests (as in SpecLive, without *)
(* its fairness) until a signal arrives.                                   *)
(***************************************************************************)
NextProc ==
    \/ proc.exit = None /\ NextLive
    \/ \E sig \in Signals : Signal(sig)

SpecProc == Init /\ [][NextProc]_vars

(***************************************************************************)
(* Properties.                                                             *)
(***************************************************************************)
IsDone(r) == reqs[r].pc = "done"

\* The request in slot r takes a step of its handler.
Steps(r) == reqs[r].pc \notin {"idle", "done"} /\ reqs'[r] # reqs[r]

\* C1: when the uniqueness pre-check of Create (a row with the same email)
\* or of Update-with-email (a row with the same email and another id) finds
\* a row, the request is answered 409 CONFLICT and writes nothing; an Update
\* to the user's own current email is not a conflict: its pre-check passes
\* and its UPDATE is answered 200.
C1_ConflictLeavesStore ==
    [][\A r \in Reqs :
        LET req == reqs[r]
            createHit == /\ req.pc = "check"
                         /\ \E u \in users : u.email = Val(req.body.email)
            updateHit == /\ req.pc = "emailCheck"
                         /\ \E u \in users : /\ u.email = Val(req.body.email)
                                             /\ u.id # req.id
            ownEmail == /\ req.pc \in {"emailCheck", "update"}
                        /\ IsSome(req.body.email)
                        /\ \E u \in users : /\ u.id = req.id
                                            /\ u.email = Val(req.body.email)
        IN Steps(r) =>
             /\ (createHit \/ updateHit) =>
                  /\ reqs'[r].pc = "done"
                  /\ reqs'[r].resp.status = 409
                  /\ reqs'[r].resp.code = Some("CONFLICT")
                  /\ reqs'[r].nw = 0
                  /\ users' = users
             /\ ownEmail =>
                  /\ reqs'[r].resp.status # 409
                  /\ req.pc = "emailCheck" => reqs'[r].pc = "update"
                  /\ req.pc = "update" => reqs'[r].resp.status = 200
    ]_vars

\* A Create was answered 409 while the row holding its email is in the store.
C1_Witness ==
    \E r \in Reqs :
        /\ IsDone(r) /\ reqs[r].op = "create"
        /\ reqs[r].resp.status = 409
        /\ \E u \in users : u.email = Val(reqs[r].body.email)

\* C2: in every reachable state no two rows of the store have the same email.
C2_EmailUnique ==
    \A u, w \in users : u.email = w.email => u = w

\* Two Creates raced on one email: one inserted, the other was refused by
\* the store after passing its pre-check.
C2_Witness ==
    \E r, t \in Reqs :
        /\ r # t /\ IsDone(r) /\ IsDone(t)
        /\ reqs[r].op = "create" /\ reqs[t].op = "create"
        /\ reqs[r].body.email = reqs[t].body.email
        /\ reqs[r].resp.status = 201 /\ reqs[t].nq = 2 /\ reqs[t].nw = 0

\* The schema of the route of req, as the interface states it.
BadId(req) == req.op \in {"get", "update", "delete"} /\ ~IsUuid(req.id)

BadName(v) == IsSome(v) /\ (Len(Val(v)) < 2 \/ Len(Val(v)) > 100)

BadEmail(v) == IsSome(v) /\ Val(v) \notin ValidEmails

BadAge(v) == IsSome(v) /\ (Val(v) < 0 \/ Val(v) > 150)

BadBody(req) ==
    \/ /\ req.op = "create"
       /\ \/ req.body.name = None \/ req.body.email = None
          \/ BadName(req.body.name) \/ BadEmail(req.body.email)
          \/ BadAge(req.body.age)
    \/ /\ req.op = "update"
       /\ \/ BadName(req.body.name) \/ BadEmail(req.body.email)
          \/ BadAge(req.body.age)

BadPaging(req) ==
    /\ req.op = "list"
    /\ \/ req.query.page \in {Some("0"), Some("abc")}
       \/ req.query.limit \in {Some("0"), Some("101"), Some("abc")}

\* C3: a request whose input fails the schema of its route is answered 400
\* with success = false, and no store query is executed for it.
C3_InvalidInputNoQuery ==
    \A r \in Reqs :
        LET req == reqs[r]
        IN (req.pc # "idle" /\ (BadId(req) \/ BadBody(req) \/ BadPaging(req))) =>
              /\ req.pc = "done"
              /\ req.resp.status = 400
              /\ req.resp.success = Some(FALSE)
              /\ req.nq = 0

\* An Update with a well-formed id and a malformed email was answered while
\* the store holds a row.
C3_Witness ==
    \E r \in Reqs :
        /\ IsDone(r) /\ reqs[r].op = "update" /\ IsUuid(reqs[r].id)
        /\ reqs[r].body.email = Some("invalid-email")
        /\ reqs[r].resp.status = 400
        /\ users # {}

\* C4: when the lookup of Get, Update or Delete by a well-formed id matches
\* no row, the request is answered 404 NOT_FOUND and the store is unchanged.
C4_NotFoundLeavesStore ==
    [][\A r \in Reqs :
        (/\ Steps(r)
         /\ reqs[r].pc \in {"select", "exists", "update", "delete"}
         /\ ~\E u \in users : u.id = reqs[r].id) =>
            /\ reqs'[r].pc = "done"
            /\ reqs'[r].resp.status = 404
            /\ reqs'[r].resp.code = Some("NOT_FOUND")
            /\ reqs'[r].nw = 0
            /\ users' = users
    ]_vars

\* A Delete of an id that was issued and has been deleted was answered 404.
C4_Witness ==
    \E r \in Reqs :
        /\ IsDone(r) /\ reqs[r].op = "delete"
        /\ reqs[r].id \in issued
        /\ reqs[r].resp.status = 404
        /\ users # {}

\* C5: an HttpError that reaches errorHandler is answered with its
\* statusCode, its code, and its message verbatim as body.error.
C5_ErrorVerbatim ==
    \A r \in Reqs :
        (IsDone(r) /\ IsSome(reqs[r].err) /\ Val(reqs[r].err).isHttp) =>
            /\ reqs[r].resp.status = Val(Val(reqs[r].err).statusCode)
            /\ reqs[r].resp.code = Val(reqs[r].err).code
            /\ reqs[r].resp.error = Val(reqs[r].err).message

\* C6: a valid Create whose email is not yet present is answered 201 with
\* the supplied name, email and age (age absent when not supplied), and the
\* stored row holds the same values.
C6_CreateEchoesInput ==
    \A r \in Reqs :
        (IsDone(r) /\ reqs[r].op = "create" /\ reqs[r].resp.status = 201) =>
            LET row == reqs[r].resp.data[1]
            IN /\ row.name = Val(reqs[r].body.name)
               /\ row.email = Val(reqs[r].body.email)
               /\ row.age = reqs[r].body.age
               /\ row \in users

\* C7: the id returned by a successful Create was never returned before,
\* and the returned createdAt equals the returned updatedAt.
C7_FreshIdAndTimestamps ==
    [][\A r \in Reqs :
        (Steps(r) /\ reqs[r].pc = "insert" /\ reqs'[r].resp.status = 201) =>
            LET row == reqs'[r].resp.data[1]
            IN /\ row.id \notin issued
               /\ row.createdAt = row.updatedAt
    ]_vars

\* A second Create succeeded after the first user had been deleted.
C7_Witness ==
    \E r \in Reqs :
        /\ IsDone(r) /\ reqs[r].op = "create" /\ reqs[r].resp.status = 201
        /\ Cardinality(issued) = 2
        /\ Cardinality(users) = 1

Max(a, b) == IF a > b THEN a ELSE b

\* page and limit of a List request, with the defaults 1 and 10.
PageOfQuery(q) == IF q.page = None THEN 1 ELSE NumericText[Val(q.page)]
LimitOfQuery(q) == IF q.limit = None THEN 10 ELSE NumericText[Val(q.limit)]

\* C8: a List request with valid page and limit over a quiescent store of
\* `total' users is answered 200 with pagination = {page, limit, total,
\* ceil(total / limit)} and min(limit, max(0, total - (page-1)*limit)) rows.
C8_ListPagination ==
    \A r \in Reqs :
        (IsDone(r) /\ reqs[r].op = "list" /\ ~BadPaging(reqs[r])) =>
            LET page == PageOfQuery(reqs[r].query)
                limit == LimitOfQuery(reqs[r].query)
                total == Cardinality(users)
            IN /\ reqs[r].resp.status = 200
               /\ reqs[r].resp.pagination =
                    Some([page |-> page, limit |-> limit, total |-> total,
                          totalPages |-> CeilDiv(total, limit)])
               /\ Len(reqs[r].resp.data) =
                    Min(limit, Max(0, total - (page - 1) * limit))

\* C9: an Update of an existing id whose body supplies none of name, email,
\* age is answered 400 NO_UPDATES and leaves the store, updatedAt included,
\* unchanged.
C9_NoUpdatesRejected ==
    [][\A r \in Reqs :
        (/\ Steps(r)
         /\ reqs[r].pc = "exists"
         /\ reqs[r].body = NoBody
         /\ \E u \in users : u.id = reqs[r].id) =>
            /\ reqs'[r].pc = "done"
            /\ reqs'[r].resp.status = 400
            /\ reqs'[r].resp.code = Some("NO_UPDATES")
            /\ reqs'[r].nw = 0
            /\ users' = users
    ]_vars

\* An empty Update of a stored user was answered NO_UPDATES.
C9_Witness ==
    \E r \in Reqs :
        /\ IsDone(r) /\ reqs[r].op = "update" /\ reqs[r].body = NoBody
        /\ reqs[r].resp.code = Some("NO_UPDATES")
        /\ \E u \in users : u.id = reqs[r].id

\* C10 (as claimed): an Update whose body supplies none of name, email, age
\* is answered without any store query, whether or not the id exists.
C10_NoQueryAtAll ==
    \A r \in Reqs :
        (IsDone(r) /\ reqs[r].op = "update" /\ IsUuid(reqs[r].id)
           /\ reqs[r].body = NoBody) => reqs[r].nq = 0

\* C10 (amended): an Update whose body supplies none of name, email, age is
\* answered after exactly one store query, the existence check: 404
\* NOT_FOUND when the id matches no row and 400 NO_UPDATES when it does; it
\* writes nothing.
C10_OnlyExistenceCheck ==
    \A r \in Reqs :
        (IsDone(r) /\ reqs[r].op = "update" /\ IsUuid(reqs[r].id)
           /\ reqs[r].body = NoBody) =>
            /\ reqs[r].nq = 1
            /\ reqs[r].nw = 0
            /\ \/ reqs[r].resp.status = 404 /\ reqs[r].resp.code = Some("NOT_FOUND")
               \/ reqs[r].resp.status = 400 /\ reqs[r].resp.code = Some("NO_UPDATES")

\* An empty Update of an id that is not in the store was answered 404 after
\* its existence check.
C10_Witness ==
    \E r \in Reqs :
        /\ IsDone(r) /\ reqs[r].op = "update" /\ reqs[r].body = NoBody
        /\ reqs[r].resp.status = 404
        /\ reqs[r].nq = 1

\* C11: an Update answered 200 changes, on the addressed row, exactly the
\* fields supplied in the body (to the supplied values) and updatedAt (to
\* the request's timestamp); the row's id, createdAt and unsupplied fields
\* keep their values, and every other row is unchanged.
C11_UpdateFrame ==
    [][\A r \in Reqs :
        LET req == reqs[r]
        IN (Steps(r) /\ req.op = "update" /\ reqs'[r].pc = "done"
                     /\ reqs'[r].resp.status = 200) =>
             \E u \in users, v \in users' :
                /\ u.id = req.id
                /\ v.id = u.id
                /\ users' \ {v} = users \ {u}
                /\ v.createdAt = u.createdAt
                /\ v.updatedAt = req.now
                /\ v.name = IF IsSome(req.body.name) THEN Val(req.body.name)
                            ELSE u.name
                /\ v.email = IF IsSome(req.body.email) THEN Val(req.body.email)
                             ELSE u.email
                /\ v.age = IF IsSome(req.body.age) THEN req.body.age ELSE u.age
    ]_vars

\* An Update that supplied only a name was answered 200 after the clock
\* advanced, next to another row: the row keeps its age, email and
\* createdAt, and carries the new name and a later updatedAt.
C11_Witness ==
    LET req == reqs["r1"]
    IN /\ req.op = "update" /\ req.pc = "done" /\ req.resp.status = 200
       /\ IsSome(req.body.name) /\ req.body.email = None /\ req.body.age = None
       /\ Cardinality(users) = 2
       /\ \E u \in users : /\ u.id = req.id
                           /\ u.name = Val(req.body.name)
                           /\ IsSome(u.age)
                           /\ u.updatedAt > u.createdAt

\* The store query the request in slot r is about to issue rejects: the
\* store is unreachable, the statement is not valid, or the write breaks
\* the UNIQUE(email) constraint.
QueryRejects(r) ==
    LET req == reqs[r]
    IN /\ req.pc \in {"count", "page", "select", "check", "insert", "exists",
                      "emailCheck", "update", "delete"}
       /\ \/ ~dbUp
          \/ req.pc = "page" /\ ~StatementOk(ListPageCols)
          \/ req.pc = "insert" /\ \E u \in users : u.email = Val(req.body.email)
          \/ /\ req.pc = "update" /\ IsSome(req.body.email)
             /\ \E u \in users : u.id = req.id
             /\ \E u \in users : u.id # req.id /\ u.email = Val(req.body.email)

\* C12 (as stated): whenever a store query fails during List, Get, Create,
\* Update or Delete, the response is a 500 whose code is
\* INTERNAL_SERVER_ERROR.
C12_StoreFailureInternal ==
    [][\A r \in Reqs :
        (Steps(r) /\ QueryRejects(r)) =>
            /\ reqs'[r].pc = "done"
            /\ reqs'[r].resp.status = 500
            /\ reqs'[r].resp.code = Some("INTERNAL_SERVER_ERROR")
    ]_vars

\* C12 (amended): whenever a store query fails during List, Get, Create,
\* Update or Delete, the request ends with a 500 error envelope whose code
\* is DATABASE_ERROR, written by errorHandler from the HttpError the
\* route's catch clause threw.
C12_StoreFailureDatabaseError ==
    [][\A r \in Reqs :
        (Steps(r) /\ QueryRejects(r)) =>
            /\ reqs'[r].pc = "done"
            /\ reqs'[r].resp.status = 500
            /\ reqs'[r].resp.success = Some(FALSE)
            /\ reqs'[r].resp.code = Some("DATABASE_ERROR")
            /\ IsSome(reqs'[r].err) /\ Val(reqs'[r].err).isHttp
    ]_vars

\* A Delete met an unreachable store on its only query and was answered
\* with the 500 envelope.
C12_Witness ==
    \E r \in Reqs :
        /\ reqs[r].op = "delete" /\ reqs[r].pc = "done" /\ reqs[r].nq = 1
        /\ reqs[r].resp.status = 500
        /\ reqs[r].resp.code = Some("DATABASE_ERROR")
        /\ ~dbUp

\* The request in slot r delivered a value that is not an HttpError to
\* errorHandler and has been answered.
RaisedPlain(r) ==
    /\ reqs[r].pc = "done" /\ reqs[r].op = "raise"
    /\ Val(reqs[r].ctor).cls = "Error"

\* C13 (as stated): every error reaching errorHandler that is not an
\* HttpError, whatever its name or code, is answered 500 with code
\* INTERNAL_SERVER_ERROR, and body.error is 'Something went wrong' when
\* NODE_ENV is production and the error's own message otherwise.
C13_PlainErrorOwnMessage ==
    \A r \in Reqs :
        RaisedPlain(r) =>
            /\ reqs[r].resp.status = 500
            /\ reqs[r].resp.code = Some("INTERNAL_SERVER_ERROR")
            /\ reqs[r].resp.error =
                 Some(IF nodeEnv = "production" THEN "Something went wrong"
                      ELSE Val(reqs[r].ctor).message)

\* C13 (amended): every error reaching errorHandler that is not an
\* HttpError, whatever its name or code, is answered 500 with code
\* INTERNAL_SERVER_ERROR; body.error is 'Something went wrong' when NODE_ENV
\* is production or the error's own message is empty, and the error's own
\* message otherwise.
C13_PlainErrorIs500 ==
    \A r \in Reqs :
        RaisedPlain(r) =>
            /\ reqs[r].resp.status = 500
            /\ reqs[r].resp.code = Some("INTERNAL_SERVER_ERROR")
            /\ reqs[r].resp.error =
                 Some(IF nodeEnv = "production" \/ Val(reqs[r].ctor).message = ""
                      THEN "Something went wrong"
                      ELSE Val(reqs[r].ctor).message)

\* Outside production, an error named ValidationError that carries the
\* duplicate-key code and its own statusCode 400 was answered 500 with its
\* own message.
C13_Witness ==
    /\ RaisedPlain("r1")
    /\ nodeEnv = "development"
    /\ Val(reqs["r1"].ctor).name = Some("ValidationError")
    /\ Val(reqs["r1"].ctor).code = Some("11000")
    /\ Val(reqs["r1"].ctor).statusCode = Some(400)
    /\ reqs["r1"].resp.status = 500
    /\ reqs["r1"].resp.error = Some("boom")

\* C14: constructing a taxonomy error always yields an error value with the
\* given message and fixed fields: ValidationError (400, VALIDATION_ERROR),
\* NotFoundError (404, NOT_FOUND), ConflictError (409, CONFLICT),
\* HttpError(message) statusCode 500 and no code, HttpError(message,
\* statusCode, code) the given statusCode and code; status is 'fail'
\* exactly when 400 <= statusCode < 500 and 'error' otherwise.
C14_TaxonomyFields ==
    \A r \in Reqs :
        (reqs[r].pc = "done" /\ reqs[r].op = "raise"
                             /\ Val(reqs[r].ctor).cls # "Error") =>
            /\ IsSome(reqs[r].err)
            /\ LET d == Val(reqs[r].ctor)
                   e == Val(reqs[r].err)
                   sc == Val(e.statusCode)
               IN /\ e.isHttp
                  /\ e.message = Some(d.message)
                  /\ d.cls = "ValidationError" =>
                        sc = 400 /\ e.code = Some("VALIDATION_ERROR")
                  /\ d.cls = "NotFoundError" =>
                        sc = 404 /\ e.code = Some("NOT_FOUND")
                  /\ d.cls = "ConflictError" =>
                        sc = 409 /\ e.code = Some("CONFLICT")
                  /\ (d.cls = "HttpError" /\ d.statusCode = None) =>
                        sc = 500 /\ e.code = None
                  /\ (d.cls = "HttpError" /\ d.statusCode # None) =>
                        sc = Val(d.statusCode) /\ e.code = d.code
                  /\ (e.status = Some("fail")) <=> (400 <= sc /\ sc < 500)
                  /\ (e.status = Some("error")) <=> ~(400 <= sc /\ sc < 500)

\* HttpError('boom') was constructed with its defaults: statusCode 500,
\* status 'error', no code.
C14_Witness ==
    /\ reqs["r1"].pc = "done" /\ reqs["r1"].op = "raise"
    /\ Val(reqs["r1"].ctor) = Ctor("HttpError", None, "boom", None, None)
    /\ Val(reqs["r1"].err).statusCode = Some(500)
    /\ Val(reqs["r1"].err).status = Some("error")
    /\ Val(reqs["r1"].err).code = None

\* C15: GET /health/live is answered 200 'alive' whatever the store does and
\* without a query; GET /health and GET /health/ready are answered 200 when
\* the store answers the ping and 503 when it does not; the store failure
\* never leaves healthCheck (no error reaches errorHandler).
C15_HealthRoutes ==
    [][\A r \in Reqs :
        /\ (reqs[r].pc = "idle" /\ reqs'[r].op = "/live") =>
              /\ reqs'[r].pc = "done"
              /\ reqs'[r].resp.status = 200
              /\ reqs'[r].resp.health = Some("alive")
              /\ reqs'[r].nq = 0
        /\ (Steps(r) /\ reqs[r].op \in {"/", "/ready"}) =>
              /\ reqs'[r].pc = "done"
              /\ reqs'[r].resp.status = IF dbUp THEN 200 ELSE 503
              /\ reqs'[r].resp.health =
                   Some(IF reqs[r].op = "/"
                        THEN IF dbUp THEN "healthy" ELSE "unhealthy"
                        ELSE IF dbUp THEN "ready" ELSE "not ready")
              /\ reqs'[r].err = None
              /\ ~reqs'[r].logged
    ]_vars

\* With the store down, the readiness probe was answered 503 'not ready'
\* while the liveness probe in the other slot was answered 200 'alive'.
C15_Witness ==
    /\ ~dbUp
    /\ reqs["r1"].op = "/ready" /\ reqs["r1"].pc = "done"
    /\ reqs["r1"].resp.status = 503
    /\ reqs["r1"].resp.health = Some("not ready")
    /\ reqs["r2"].op = "/live" /\ reqs["r2"].pc = "done"
    /\ reqs["r2"].resp.status = 200

\* The messages each field of a schema can report.
NameMessages ==
    {"name is required", "Name must be at least 2 characters",
     "Name must be at most 100 characters"}

EmailMessages == {"email is required", "Invalid email format"}

AgeMessages == {"Age must be at least 0", "Age must be at most 150"}

PageMessages == {"page must be a number", "page must be greater than or equal to 1"}

LimitMessages ==
    {"limit must be a number", "limit must be greater than or equal to 1",
     "limit must be less than or equal to 100"}

\* One message of msgs when the field fails, none when it passes.
Pick(bad, msgs) == IF bad THEN {<<m>> : m \in msgs} ELSE {<<>>}

\* The reports that name every failing field of the schema the request's
\* input is validated against, once each and in field order.
FullReports(req) ==
    LET required == req.op = "create"
        names == Pick((required /\ req.body.name = None) \/ BadName(req.body.name),
                      NameMessages)
        emails == Pick((required /\ req.body.email = None) \/ BadEmail(req.body.email),
                       EmailMessages)
        ages == Pick(BadAge(req.body.age), AgeMessages)
        pages == Pick(req.query.page \in {Some("0"), Some("abc")}, PageMessages)
        limits == Pick(req.query.limit \in {Some("0"), Some("101"), Some("abc")},
                       LimitMessages)
    IN IF req.op = "list" THEN {x \o y : x \in pages, y \in limits}
       ELSE {x \o y \o z : x \in names, y \in emails, z \in ages}

\* C16: when the input of a List, Create or Update (with a well-formed id)
\* breaks k >= 1 field rules of its schema, the ValidationError that is
\* thrown reports all k violations: its message is 'Validation failed: '
\* followed by one message per failing field, in field order, separated by
\* ', '.
C16_AllViolationsReported ==
    \A r \in Reqs :
        LET req == reqs[r]
        IN (/\ req.pc # "idle"
            /\ req.op \in {"list", "create", "update"}
            /\ req.op = "update" => IsUuid(req.id)
            /\ BadBody(req) \/ BadPaging(req)) =>
              /\ IsSome(req.err)
              /\ Val(req.err).cls = "ValidationError"
              /\ \E ms \in FullReports(req) :
                    /\ Len(ms) >= 1
                    /\ Val(req.err).message =
                         Some("Validation failed: " \o JoinMessages(ms))

\* A Create whose name, email and age all break a rule threw one
\* ValidationError that names the three violations.
C16_Witness ==
    /\ reqs["r1"].op = "create" /\ reqs["r1"].pc = "done"
    /\ reqs["r1"].body = Body(Some("A"), Some("invalid-email"), Some(151))
    /\ Val(reqs["r1"].err).message =
         Some("Validation failed: Name must be at least 2 characters, "
              \o "Invalid email format, Age must be at most 150")

\* C17: when a Create that passed its uniqueness pre-check sends its INSERT,
\* it is answered 201 and inserts its row if no row holds its email; if a
\* concurrent Create inserted that email in between, the INSERT breaks the
\* UNIQUE(email) constraint and the request is answered with a generic 500
\* (status 500, code DATABASE_ERROR, not 409 CONFLICT) and inserts no row.
\* So of two such Creates exactly one is answered 201.
C17_CreateRace ==
    [][\A r \in Reqs :
        LET req == reqs[r]
            taken == \E u \in users : u.email = Val(req.body.email)
        IN (Steps(r) /\ req.pc = "insert") =>
             /\ reqs'[r].pc = "done"
             /\ taken =>
                  /\ reqs'[r].resp.status = 500
                  /\ reqs'[r].resp.code = Some("DATABASE_ERROR")
                  /\ reqs'[r].nw = 0
                  /\ users' = users
             /\ ~taken =>
                  /\ reqs'[r].resp.status = 201
                  /\ reqs'[r].nw = 1
                  /\ \E u \in users' : /\ u.id = req.newId
                                       /\ u.email = Val(req.body.email)
                                       /\ users' = users \cup {u}
                  /\ Cardinality(users') = Cardinality(users) + 1
    ]_vars

\* Both slots hold answered Creates of one email that both passed the
\* pre-check: one was answered 201, the other 500 DATABASE_ERROR, and the
\* store holds the single row of the winner.
C17_Witness ==
    /\ reqs["r1"].op = "create" /\ reqs["r2"].op = "create"
    /\ reqs["r1"].pc = "done" /\ reqs["r2"].pc = "done"
    /\ reqs["r1"].body.email = reqs["r2"].body.email
    /\ reqs["r1"].nq = 2 /\ reqs["r2"].nq = 2
    /\ reqs["r1"].resp.status = 201
    /\ reqs["r2"].resp.status = 500
    /\ reqs["r2"].resp.code = Some("DATABASE_ERROR")
    /\ Cardinality(users) = 1
    /\ \A u \in users : u.id = reqs["r1"].newId

\* C18: when an Update whose existence check has passed sends its UPDATE
\* after the addressed row was deleted, the statement affects no row and
\* the request is answered 404 NOT_FOUND (not 200, not 500); the store is
\* left as it is.
C18_LateDeleteIs404 ==
    [][\A r \in Reqs :
        LET req == reqs[r]
        IN (Steps(r) /\ req.pc = "update"
                     /\ ~\E u \in users : u.id = req.id) =>
             /\ req.nq >= 1
             /\ reqs'[r].pc = "done"
             /\ reqs'[r].resp.status = 404
             /\ reqs'[r].resp.code = Some("NOT_FOUND")
             /\ reqs'[r].nw = 0
             /\ users' = users
    ]_vars

\* An Update sent three queries (existence check, email check, UPDATE) and
\* was answered 404 while the other slot holds the answered Delete of the
\* same id.
C18_Witness ==
    \E r, t \in Reqs :
        /\ reqs[r].op = "update" /\ reqs[r].pc = "done" /\ reqs[r].nq = 3
        /\ reqs[r].resp.status = 404
        /\ reqs[t].op = "delete" /\ reqs[t].pc = "done"
        /\ reqs[t].resp.status = 200 /\ reqs[t].id = reqs[r].id
        /\ ~\E u \in users : u.id = reqs[r].id

UserOps == {"list", "get", "create", "update", "delete"}

C20_HardDeleteOnce ==
    /\ [][\A r \in Reqs :
            LET req == reqs[r]
                present == \E u \in users : u.id = req.id
            IN /\ (Steps(r) /\ req.pc = "delete" /\ present) =>
                    /\ reqs'[r].pc = "done"
                    /\ reqs'[r].resp.status = 200
                    /\ reqs'[r].resp.id = Some(req.id)
                    /\ IsSome(reqs'[r].resp.message)
                    /\ users' = {u \in users : u.id # req.id}
               /\ (Steps(r) /\ req.pc \in {"delete", "select"} /\ ~present) =>
                    /\ reqs'[r].pc = "done"
                    /\ reqs'[r].resp.status = 404
                    /\ users' = users
       ]_vars
    /\ [](\A r \in Reqs :
            (reqs[r].pc = "done" /\ reqs[r].op = "delete"
                                 /\ reqs[r].resp.status = 200) =>
               /\ ~\E u \in users : u.id = reqs[r].id
               /\ \A t \in Reqs \ {r} :
                     ~(/\ reqs[t].pc = "done" /\ reqs[t].op = "delete"
                       /\ reqs[t].id = reqs[r].id
                       /\ reqs[t].resp.status = 200))

\* Two Deletes of one issued id were both answered: one 200, the other 404,
\* and another row is still in the store.
C20_Witness ==
    /\ reqs["r1"].op = "delete" /\ reqs["r2"].op = "delete"
    /\ reqs["r1"].pc = "done" /\ reqs["r2"].pc = "done"
    /\ reqs["r1"].id = reqs["r2"].id /\ reqs["r1"].id \in issued
    /\ reqs["r1"].resp.status = 200 /\ reqs["r1"].resp.id = Some(reqs["r1"].id)
    /\ reqs["r2"].resp.status = 404
    /\ Cardinality(users) = 1

\* C21: every answer to a List request with valid paging, also one computed
\* while Creates and Deletes run, carries a pagination object and
\* data.length = min(limit, max(0, total - (page-1)*limit)) for the total
\* of that same pagination object.
C21_ListSelfConsistent ==
    \A r \in Reqs :
        (IsDone(r) /\ reqs[r].op = "list" /\ ~BadPaging(reqs[r])) =>
            /\ IsSome(reqs[r].resp.pagination)
            /\ LET p == Val(reqs[r].resp.pagination)
               IN Len(reqs[r].resp.data) =
                    Min(p.limit, Max(0, p.total - (p.page - 1) * p.limit))

\* The number of times event occurs in trace.
Count(trace, event) == Cardinality({i \in 1..Len(trace) : trace[i] = event})

\* The position of the first occurrence of event in trace (0 if none).
IndexOf(trace, event) ==
    IF Count(trace, event) = 0 THEN 0
    ELSE CHOOSE i \in 1..Len(trace) :
            trace[i] = event /\ \A j \in 1..(i - 1) : trace[j] # event

\* C22: a call of Database.transaction that acquired a client releases it
\* exactly once by the time it ends, on every path, never before it ends,
\* and only after COMMIT or ROLLBACK was sent; COMMIT is sent only after the
\* callback succeeded, and ROLLBACK is sent whenever BEGIN, the callback or
\* COMMIT failed (and only then).  A call whose connect failed acquires and
\* releases nothing.
C22_ClientReleasedOnce ==
    \A t \in Txs :
        LET x == tx[t]
            acquired == Count(x.trace, "connect") = 1
            rel == IndexOf(x.trace, "release")
        IN /\ Count(x.trace, "release") = IF x.pc = "done" /\ acquired THEN 1 ELSE 0
           /\ rel > 0 =>
                /\ rel = Len(x.trace)
                /\ \/ Count(SubSeq(x.trace, 1, rel - 1), "COMMIT") = 1
                   \/ Count(SubSeq(x.trace, 1, rel - 1), "ROLLBACK") = 1
           /\ Count(x.trace, "COMMIT") = 1 =>
                /\ IndexOf(x.trace, "callback") > 0
                /\ IndexOf(x.trace, "callback") < IndexOf(x.trace, "COMMIT")
                /\ "callback" \notin x.failed
           /\ x.pc = "done" /\ acquired =>
                (Count(x.trace, "ROLLBACK") = 1
                    <=> x.failed \cap {"BEGIN", "callback", "COMMIT"} # {})
           /\ Count(x.trace, "COMMIT") <= 1 /\ Count(x.trace, "ROLLBACK") <= 1

\* One call ended after COMMIT and then ROLLBACK were both rejected, with
\* its client released once; the other returned after a COMMIT.
C22_Witness ==
    /\ tx["t1"].pc = "done"
    /\ tx["t1"].failed = {"COMMIT", "ROLLBACK"}
    /\ tx["t1"].trace = <<"connect", "BEGIN", "callback", "COMMIT", "ROLLBACK",
                          "release">>
    /\ tx["t2"].pc = "done" /\ tx["t2"].outcome = Some("returned")
    /\ tx["t2"].trace = <<"connect", "BEGIN", "callback", "COMMIT", "release">>

\* C23: after SIGTERM or SIGINT the process exits with code 0 only once the
\* HTTP server has closed and the database pool has been closed after it,
\* and with code 1 only through the force-shutdown timer.
C23_GracefulShutdown ==
    /\ proc.exit = Some(0) => proc.server = "closed" /\ proc.pool = "closed"
    /\ proc.exit = Some(1) => proc.timer
    /\ proc.pool = "closed" => proc.server = "closed"

\* C24: a finished response is logged at one level fixed by its status
\* code: error for 500 and above, warn for 400..499, info below 400.
C24_LogLevelByStatus ==
    \A r \in Reqs :
        reqs[r].pc = "done" =>
            reqs[r].level =
                Some(IF reqs[r].resp.status >= 500 THEN "error"
                     ELSE IF reqs[r].resp.status >= 400 THEN "warn"
                     ELSE "info")

====
